---- MODULE Spec2Model ----
(***************************************************************************)
(* Model of the DVC experiments service (src/api.py) and of the command    *)
(* line report (src/list_dvc_experiments.py).                              *)
(*                                                                         *)
(* Text is a sequence of one-character strings, so that parsing, prefix    *)
(* and substring tests are computed and not assumed.  A Python dict is a   *)
(* function whose DOMAIN is its set of keys.                               *)
(***************************************************************************)
EXTENDS Integers, Sequences, FiniteSets, TLC

VARIABLES
    pc,             \* "ready" before the operation runs, "done" after it
    op,             \* the operation of this behaviour
    experiment_id,  \* the {experiment_id} path parameter of the request
    tool,           \* what the dvc subcommands answer: [list, show, apply]
    calls,          \* the subprocess invocations made, in order
    response,       \* the HTTP response, or the report's exit code and output
    resolved,       \* index in the listing of the experiment the lookup loop matched, 0 if none
    line,           \* lister loop: the stdout line just consumed
    experiments,    \* lister loop: the (hash, name) pairs appended so far
    nlines          \* lister loop: how many stdout lines were consumed

vars == <<pc, op, experiment_id, tool, calls, response, resolved, line, experiments, nlines>>

----------------------------------------------------------------------------
(* Bounds *)

MaxLineLen == 5     \* longest stdout line enumerated character by character
MaxLines == 2       \* stdout lines consumed by the lister loop
MaxHashLen == 2     \* longest commit hash / identifier
MaxExps == 2        \* experiments in one listing

----------------------------------------------------------------------------
(* Text *)

WordChars == {"a", "b", "c", "m", "i", "n", "x", "y"}
SpaceChars == {" "}

\* every sequence over S of length lo..hi
SeqsOf(S, lo, hi) == UNION {[1..k -> S] : k \in lo..hi}

\* str.startswith
StartsWith(s, p) == Len(p) <= Len(s) /\ SubSeq(s, 1, Len(p)) = p

\* the `in` operator on two strings: p occurs in s
Contains(s, p) ==
    \E i \in 0..(Len(s) - Len(p)) : SubSeq(s, i + 1, i + Len(p)) = p

\* str.strip: drop leading and trailing whitespace
Strip(s) ==
    LET keep == {i \in 1..Len(s) : s[i] \notin SpaceChars}
    IN  IF keep = {} THEN <<>>
        ELSE LET lo == CHOOSE i \in keep : \A j \in keep : i <= j
                 hi == CHOOSE i \in keep : \A j \in keep : j <= i
             IN  SubSeq(s, lo, hi)

\* length of the longest run of characters of class C in s from position i
RECURSIVE Run(_, _, _)
Run(s, i, C) == IF i <= Len(s) /\ s[i] \in C THEN 1 + Run(s, i + 1, C) ELSE 0

----------------------------------------------------------------------------
(* Experiment lister *)

MainHeader == <<"m", "a", "i", "n", ":">>

NoMatch == [matched |-> FALSE]

\* the same pattern with a lazy name group, (.+?): the name ends at the first ']'
re_match_lazy(ln) ==
    LET w == Run(ln, 1, WordChars)
        s == Run(ln, w + 1, SpaceChars)
        open == w + s + 1
        closers == {j \in (open + 2)..Len(ln) : ln[j] = "]"}
    IN  IF w = 0 \/ s = 0 \/ open > Len(ln) THEN NoMatch
        ELSE IF ln[open] # "[" \/ closers = {} THEN NoMatch
        ELSE LET close == CHOOSE j \in closers : \A k \in closers : j <= k
             IN  [matched |-> TRUE,
                  commit_hash |-> SubSeq(ln, 1, w),
                  exp_name |-> SubSeq(ln, open + 1, close - 1)]

\* re.match(r'(\w+)\s+\[(.+)\]', line): anchored at the start only; \w+ and
\* \s+ take their longest runs (a shorter run leaves a character the next
\* element cannot match); the greedy .+ runs to the last ']' of the line and
\* needs at least one character before it.
re_match(ln) ==
    LET w == Run(ln, 1, WordChars)
        s == Run(ln, w + 1, SpaceChars)
        open == w + s + 1
        closers == {j \in (open + 2)..Len(ln) : ln[j] = "]"}
    IN  IF w = 0 \/ s = 0 \/ open > Len(ln) THEN NoMatch
        ELSE IF ln[open] # "[" \/ closers = {} THEN NoMatch
        ELSE LET close == CHOOSE j \in closers : \A k \in closers : k <= j
             IN  [matched |-> TRUE,
                  commit_hash |-> SubSeq(ln, 1, w),
                  exp_name |-> SubSeq(ln, open + 1, close - 1)]

\* the lister's loop body on one raw output line: what it appends
ParseLine(raw) ==
    LET ln == Strip(raw)
    IN  IF ln = <<>> \/ StartsWith(ln, MainHeader) THEN <<>>
        ELSE LET m == re_match(ln)
             IN  IF m.matched THEN << <<m.commit_hash, m.exp_name>> >> ELSE <<>>

\* the lister's loop over the lines of the listing output
RECURSIVE get_experiments_list(_)
get_experiments_list(lines) ==
    IF lines = <<>> THEN <<>>
    ELSE ParseLine(Head(lines)) \o get_experiments_list(Tail(lines))

----------------------------------------------------------------------------
(* Values shared by the service and the report *)

HashChars == {"a", "b"}
Hashes == SeqsOf(HashChars, 1, MaxHashLen)
Names == {<<"a">>, <<"x">>}
Ids == Hashes \cup Names

\* Optional[...]: None, or a value
None == [some |-> FALSE]
Some(v) == [some |-> TRUE, val |-> v]

\* a Python dict with no key
EmptyDict == <<>>

\* truthiness of an Optional[Dict]: None and the empty dict are falsy
Truthy(o) == o.some /\ DOMAIN o.val # {}

\* x.get(key, default)
Get(d, key, default) == IF key \in DOMAIN d THEN d[key] ELSE default

\* str(e) of a CalledProcessError, as one token
StrE == <<"non-zero exit status">>

\* `a or b` on strings
OrElse(a, b) == IF a # <<>> THEN a ELSE b

ListArgv == <<"dvc", "exp", "list">>
ShowArgv == <<"dvc", "exp", "show", "--json">>
ApplyArgv(experiment_name) == <<"dvc", "exp", "apply", experiment_name>>

\* a JSON value inside a parameter mapping: an object, or null
Obj(m) == [t |-> "object", v |-> m]
Null == [t |-> "null"]

NoDetail == [what |-> <<>>, text |-> <<>>]
NoBody == [kind |-> "none"]

\* the response FastAPI sends for a raised HTTPException
HTTPException(code, what, text) ==
    [status |-> code, detail |-> [what |-> what, text |-> text], body |-> NoBody]

\* a 200 response
Ok(body) == [status |-> 200, detail |-> NoDetail, body |-> body]

----------------------------------------------------------------------------
(* Experiment resolver: the lookup loop of both endpoints *)

MatchesExact(id, ch, exp_name) == id = exp_name \/ id = ch

MatchesSubstring(id, ch, exp_name) == id = exp_name \/ id = ch \/ Contains(ch, id)

\* the condition of the loop's `if`
Matches(id, ch, exp_name) == id = exp_name \/ id = ch \/ StartsWith(ch, id)

\* the loop with its `break`: index of the first pair that satisfies the
\* condition, 0 when the loop ends without one
RECURSIVE LookupFrom(_, _, _)
LookupFrom(exps, id, i) ==
    IF i > Len(exps) THEN 0
    ELSE IF Matches(id, exps[i][1], exps[i][2]) THEN i
    ELSE LookupFrom(exps, id, i + 1)

Lookup(exps, id) == LookupFrom(exps, id, 1)

----------------------------------------------------------------------------
(* Parameter extractor *)

DvcLive == "dvclive/params.yaml"
ParamsYaml == "params.yaml"

\* the revisions the three nested loops visit, in the order they visit them
RECURSIVE RevsOfExps(_)
RevsOfExps(exps) ==
    IF exps = <<>> THEN <<>>
    ELSE LET exp == Head(exps)
             revs == IF "revs" \in DOMAIN exp THEN exp.revs ELSE <<>>
         IN  revs \o RevsOfExps(Tail(exps))

RECURSIVE Traversal(_)
Traversal(data) ==
    IF data = <<>> THEN <<>>
    ELSE LET item == Head(data)
             exps == IF "experiments" \in DOMAIN item THEN item.experiments ELSE <<>>
         IN  RevsOfExps(exps) \o Traversal(Tail(data))

\* the `if` on the revision's hash
RevMatches(commit_hash, rev) ==
    LET rev_hash == Get(rev, "rev", <<>>)
    IN  Contains(rev_hash, commit_hash) \/ StartsWith(rev_hash, commit_hash)

ParamsOfRevIgnoringError(rev) ==
    LET params_data == Get(Get(rev, "data", EmptyDict), "params", EmptyDict)
        dvclive_params == Get(params_data, DvcLive, EmptyDict)
        params_yaml == Get(params_data, ParamsYaml, EmptyDict)
    IN  IF DvcLive \in DOMAIN params_data /\ "data" \in DOMAIN dvclive_params
        THEN Some(dvclive_params.data)
        ELSE IF ParamsYaml \in DOMAIN params_data /\ "data" \in DOMAIN params_yaml
        THEN Some(params_yaml.data)
        ELSE None

\* the body run for a matching revision: what it returns, None when it
\* returns nothing and the loops go on
ParamsOfRev(rev) ==
    LET params_data == Get(Get(rev, "data", EmptyDict), "params", EmptyDict)
        dvclive_params == Get(params_data, DvcLive, EmptyDict)
        params_yaml == Get(params_data, ParamsYaml, EmptyDict)
    IN  IF /\ DvcLive \in DOMAIN params_data
           /\ "data" \in DOMAIN dvclive_params
           /\ "error" \notin DOMAIN dvclive_params
        THEN Some(dvclive_params.data)
        ELSE IF ParamsYaml \in DOMAIN params_data /\ "data" \in DOMAIN params_yaml
        THEN Some(params_yaml.data)
        ELSE None

\* a search that lets the first matching revision decide
RECURSIVE SearchRevsFirstMatch(_, _)
SearchRevsFirstMatch(revs, commit_hash) ==
    IF revs = <<>> THEN None
    ELSE IF RevMatches(commit_hash, Head(revs)) THEN ParamsOfRev(Head(revs))
    ELSE SearchRevsFirstMatch(Tail(revs), commit_hash)

\* the search over the revisions in traversal order
RECURSIVE SearchRevs(_, _)
SearchRevs(revs, commit_hash) ==
    IF revs = <<>> THEN None
    ELSE LET found == IF RevMatches(commit_hash, Head(revs))
                      THEN ParamsOfRev(Head(revs)) ELSE None
         IN  IF found.some THEN found ELSE SearchRevs(Tail(revs), commit_hash)

get_experiment_params_quiet(show, commit_hash) ==
    [raised |-> FALSE,
     value |-> IF show.kind = "ok" THEN SearchRevs(Traversal(show.data), commit_hash)
               ELSE None]

\* one answer of `dvc exp show --json`: [kind, stderr, data]; kind is "ok",
\* "exit" (non-zero exit), "invalid_json" or "not_iterable" (valid JSON that
\* is not a sequence, such as a number)
\* src/api.py: every failure is raised as HTTP 500
get_experiment_params(show, commit_hash) ==
    CASE show.kind = "exit" ->
            [raised |-> TRUE,
             error |-> HTTPException(500, <<"Error running 'dvc exp show'">>,
                                     OrElse(show.stderr, StrE))]
      [] show.kind = "invalid_json" ->
            [raised |-> TRUE,
             error |-> HTTPException(500, <<"Error parsing JSON">>, <<"JSONDecodeError">>)]
      [] show.kind = "not_iterable" ->
            [raised |-> TRUE,
             error |-> HTTPException(500, <<"Error getting params">>, <<"TypeError">>)]
      [] OTHER ->
            [raised |-> FALSE, value |-> SearchRevs(Traversal(show.data), commit_hash)]

\* src/list_dvc_experiments.py: every failure is printed and None returned
cli_get_experiment_params(show, commit_hash) ==
    IF show.kind = "ok" THEN SearchRevs(Traversal(show.data), commit_hash) ELSE None

----------------------------------------------------------------------------
(* Service facade, src/api.py *)

\* one answer of `dvc exp list`: [rc, stdout, stderr], stdout as its lines
api_get_experiments_list(listing) ==
    IF listing.rc # 0
    THEN [raised |-> TRUE,
          error |-> HTTPException(500, <<"Error running 'dvc exp list'">>,
                                  OrElse(listing.stderr, StrE))]
    ELSE [raised |-> FALSE, value |-> get_experiments_list(listing.stdout)]

\* one answer of `dvc exp apply <name>`: [kind, stdout, stderr]; kind is "ok",
\* "exit" (non-zero exit) or "oserror" (any other exception)
apply_experiment(experiment_name, answer) ==
    CASE answer.kind = "ok" ->
            [raised |-> FALSE,
             value |-> [success |-> TRUE,
                        message |-> IF Strip(answer.stdout) # <<>>
                                    THEN [stdout |-> Strip(answer.stdout)]
                                    ELSE [applied |-> experiment_name],
                        experiment_name |-> experiment_name]]
      [] answer.kind = "exit" ->
            [raised |-> TRUE,
             error |-> HTTPException(400, <<"Error applying experiment", experiment_name>>,
                                     IF answer.stderr # <<>> THEN Strip(answer.stderr)
                                     ELSE StrE)]
      [] OTHER ->
            [raised |-> TRUE,
             error |-> HTTPException(500, <<"Unexpected error applying experiment">>,
                                     <<"OSError">>)]

Sections == {"data_ingestion", "feature_engineering", "model_building"}

ExperimentParamsRequired(params) ==
    IF \A s \in Sections : s \in DOMAIN params /\ params[s].t = "object"
    THEN Ok([s \in Sections |-> params[s].v])
    ELSE HTTPException(500, <<"Internal Server Error">>, <<"ValidationError">>)

\* ExperimentParams(...): each section defaults to {} and must be a mapping,
\* else pydantic's ValidationError leaves the handler (FastAPI answers 500)
ExperimentParams(params) ==
    LET given == [s \in Sections |-> Get(params, s, Obj(EmptyDict))]
    IN  IF \A s \in Sections : given[s].t = "object"
        THEN Ok([s \in Sections |-> given[s].v])
        ELSE HTTPException(500, <<"Internal Server Error">>, <<"ValidationError">>)

\* GET /experiments
list_experiments(t) ==
    LET listed == api_get_experiments_list(t.list)
    IN  [calls |-> <<ListArgv>>,
         resolved |-> 0,
         response |->
            IF listed.raised THEN listed.error
            ELSE Ok([i \in 1..Len(listed.value) |->
                       [commit_hash |-> listed.value[i][1],
                        experiment_name |-> listed.value[i][2]]])]

\* GET /experiments/{experiment_id}/params
get_experiment_parameters(id, t) ==
    LET listed == api_get_experiments_list(t.list)
    IN  IF listed.raised
        THEN [calls |-> <<ListArgv>>, resolved |-> 0, response |-> listed.error]
        ELSE
        LET i == Lookup(listed.value, id)
            commit_hash == IF i = 0 THEN <<>> ELSE listed.value[i][1]
        IN  IF commit_hash = <<>>
            THEN [calls |-> <<ListArgv>>, resolved |-> 0,
                  response |-> HTTPException(404, <<"Experiment not found">>, id)]
            ELSE
            LET got == get_experiment_params(t.show[1], commit_hash)
            IN  [calls |-> <<ListArgv, ShowArgv>>,
                 resolved |-> i,
                 response |->
                    IF got.raised THEN got.error
                    ELSE IF ~Truthy(got.value)
                    THEN HTTPException(404, <<"Parameters not found for experiment">>, id)
                    ELSE ExperimentParams(got.value.val)]

\* `experiment_name = exp_name`: what the endpoint hands to apply_experiment
ApplyTargetRaw(id, exp_name) == id
ApplyTarget(id, exp_name) == exp_name

\* POST /experiments/{experiment_id}/apply
apply_experiment_endpoint(id, t) ==
    LET listed == api_get_experiments_list(t.list)
    IN  IF listed.raised
        THEN [calls |-> <<ListArgv>>, resolved |-> 0, response |-> listed.error]
        ELSE
        LET i == Lookup(listed.value, id)
        IN  IF i = 0
            THEN [calls |-> <<ListArgv>>, resolved |-> 0,
                  response |-> HTTPException(404, <<"Experiment not found">>, id)]
            ELSE
            LET experiment_name == ApplyTarget(id, listed.value[i][2])
                result == apply_experiment(experiment_name, t.apply)
            IN  [calls |-> <<ListArgv, ApplyArgv(experiment_name)>>,
                 resolved |-> i,
                 response |-> IF result.raised THEN result.error ELSE Ok(result.value)]

----------------------------------------------------------------------------
(* Report generator, src/list_dvc_experiments.py *)

\* the listing failure is printed and an empty list returned
cli_get_experiments_list(listing) ==
    IF listing.rc # 0 THEN <<>> ELSE get_experiments_list(listing.stdout)

NA == "N/A"

\* raises AttributeError when a section it reads is present and is no mapping
format_params_output(params) ==
    LET given == [s \in Sections |-> Get(params, s, Obj(EmptyDict))]
    IN  IF \E s \in Sections : given[s].t # "object"
        THEN [raised |-> TRUE]
        ELSE [raised |-> FALSE,
              value |->
                 [test_size |-> Get(given["data_ingestion"].v, "test_size", NA),
                  max_features |-> Get(given["feature_engineering"].v, "max_features", NA),
                  n_estimators |-> Get(given["model_building"].v, "n_estimators", NA),
                  random_state |-> Get(given["model_building"].v, "random_state", NA)]]

Banner(e) == [kind |-> "banner", commit_hash |-> e[1], exp_name |-> e[2]]
Placeholder == [kind |-> "placeholder"]

\* the loop over the experiments from the k-th on; the k-th lookup gets the
\* k-th answer of the show subcommand
\* a loop that counts a lookup without parameters as a failure of the run
RECURSIVE ReportFromStrict(_, _, _)
ReportFromStrict(exps, shows, k) ==
    IF k > Len(exps)
    THEN [exit_code |-> 0, out |-> <<>>, err |-> <<>>, calls |-> <<>>]
    ELSE
    LET params == cli_get_experiment_params(shows[k], exps[k][1])
        rest == ReportFromStrict(exps, shows, k + 1)
    IN  [exit_code |-> IF Truthy(params) THEN rest.exit_code ELSE 1,
         out |-> <<Banner(exps[k]), [kind |-> "placeholder"]>> \o rest.out,
         err |-> rest.err,
         calls |-> <<ShowArgv>> \o rest.calls]

\* what a failed lookup prints on the error stream
LookupErr(show) ==
    CASE show.kind = "exit" -> <<"Error running 'dvc exp show'">>
      [] show.kind = "invalid_json" -> <<"Error parsing JSON">>
      [] show.kind = "not_iterable" -> <<"Error getting params">>
      [] OTHER -> <<>>

RECURSIVE ReportFrom(_, _, _)
ReportFrom(exps, shows, k) ==
    IF k > Len(exps)
    THEN [exit_code |-> 0, out |-> <<>>, err |-> <<>>, calls |-> <<>>]
    ELSE
    LET params == cli_get_experiment_params(shows[k], exps[k][1])
        text == IF Truthy(params) THEN format_params_output(params.val)
                ELSE [raised |-> FALSE, value |-> Placeholder]
        printed == IF Truthy(params) THEN [kind |-> "params", text |-> text.value]
                   ELSE Placeholder
    IN  IF text.raised
        THEN [exit_code |-> 1, out |-> <<Banner(exps[k])>>,
              err |-> LookupErr(shows[k]) \o <<"Unexpected error">>,
              calls |-> <<ShowArgv>>]
        ELSE LET rest == ReportFrom(exps, shows, k + 1)
             IN  [exit_code |-> rest.exit_code,
                  out |-> <<Banner(exps[k]), printed>> \o rest.out,
                  err |-> LookupErr(shows[k]) \o rest.err,
                  calls |-> <<ShowArgv>> \o rest.calls]

list_dvc_experiments_with_params(t) ==
    LET exps == cli_get_experiments_list(t.list)
    IN  IF exps = <<>>
        THEN [exit_code |-> 1, out |-> <<>>,
              err |-> (IF t.list.rc # 0 THEN <<"Error running 'dvc exp list'">> ELSE <<>>)
                      \o <<"No experiments found.">>,
              calls |-> <<ListArgv>>]
        ELSE LET r == ReportFrom(exps, t.show, 1)
             IN  [r EXCEPT !.calls = <<ListArgv>> \o r.calls]

----------------------------------------------------------------------------
(* Lister loop, one output line per step *)

LineChars == {"a", " ", "[", "]"}

HeaderLines ==
    { MainHeader,
      <<" ">> \o MainHeader,
      MainHeader \o <<" ", "a", " ", "[", "b", "]">> }

\* the lines of the spec's scenario, with short stand-ins for the hash and name
NamedLines ==
    { <<"m", "a", "i", "n", " ", "[", "x", "]">>,
      <<"a", "b", " ", "[", "x", "y", "]">>,
      <<"a", " ", "[", "x", "]", "]">>,
      <<" ", "a", "b", " ", " ", "[", "x", "]", " ">>,
      <<"a", "b", ":", " ", "[", "x", "]">> }

Lines == SeqsOf(LineChars, 0, MaxLineLen) \cup HeaderLines \cup NamedLines

Idle == [kind |-> "none"]

InitLister ==
    /\ pc = "ready" /\ op = "lister"
    /\ experiment_id = <<>>
    /\ tool = Idle /\ calls = <<>> /\ response = Idle /\ resolved = 0
    /\ line = <<>> /\ experiments = <<>> /\ nlines = 0

\* `for line in lines`: the loop takes the next line of the listing output
ListerNextLine ==
    /\ op = "lister" /\ pc = "ready" /\ nlines < MaxLines
    /\ \E l \in Lines : line' = l
    /\ nlines' = nlines + 1
    /\ pc' = "body"
    /\ UNCHANGED <<op, experiment_id, tool, calls, response, resolved, experiments>>

\* the loop body: strip, skip blank and header lines, match, append
ListerBody ==
    /\ op = "lister" /\ pc = "body"
    /\ experiments' = experiments \o ParseLine(line)
    /\ line' = <<>>
    /\ pc' = "ready"
    /\ UNCHANGED <<op, experiment_id, tool, calls, response, resolved, nlines>>

NextLister == ListerNextLine \/ ListerBody

SpecLister == InitLister /\ [][NextLister]_vars

----------------------------------------------------------------------------
(* What the dvc subcommands answer *)

\* a line of `dvc exp list`, indented as dvc prints it under the branch label
FormatLine(e) == <<" ">> \o e[1] \o <<" ", "[">> \o e[2] \o <<"]">>

Stdout(exps) == <<MainHeader>> \o [i \in 1..Len(exps) |-> FormatLine(exps[i])]

ListOk(exps) == [rc |-> 0, stdout |-> Stdout(exps), stderr |-> <<>>]
ListFail(stderr) == [rc |-> 1, stdout |-> <<>>, stderr |-> stderr]
\* exit 0 and no experiment line
ListNoise == [rc |-> 0, stdout |-> <<<<>>, <<"n", "o", " ", "e", "x", "p", "s">>>>, stderr |-> <<>>]

ShowOk(data) == [kind |-> "ok", stderr |-> <<>>, data |-> data]
ShowFail(kind, stderr) == [kind |-> kind, stderr |-> stderr, data |-> <<>>]

ApplyOk == [kind |-> "ok", stdout |-> <<>>, stderr |-> <<>>]

Stderrs == {<<>>, <<"e">>, <<" ", "e", " ">>}

Listings == SeqsOf(Hashes \X Names, 0, MaxExps)

\* the parameters recorded for the k-th revision in file f
Tags == <<"t1", "t2", "t3", "t4">>
ParamsOf(k, f) ==
    ("data_ingestion" :> Obj([test_size |-> Tags[k], file |-> f]))
    @@ ("model_building" :> Obj([n_estimators |-> Tags[k]]))

LiveKinds == {"absent", "data", "data_error", "error", "empty"}
YamlKinds == {"absent", "data", "empty"}

LiveEntry(kind, k) ==
    CASE kind = "data" -> [data |-> ParamsOf(k, DvcLive)]
      [] kind = "data_error" -> [data |-> ParamsOf(k, DvcLive), error |-> "unreadable"]
      [] kind = "error" -> [error |-> "unreadable"]
      [] OTHER -> EmptyDict

YamlEntry(kind, k) ==
    IF kind = "data" THEN [data |-> ParamsOf(k, ParamsYaml)] ELSE EmptyDict

Files(live, yaml, k) ==
    CASE live # "absent" /\ yaml # "absent" ->
            (DvcLive :> LiveEntry(live, k)) @@ (ParamsYaml :> YamlEntry(yaml, k))
      [] live # "absent" -> (DvcLive :> LiveEntry(live, k))
      [] yaml # "absent" -> (ParamsYaml :> YamlEntry(yaml, k))
      [] OTHER -> EmptyDict

\* a revision of the show document; also one with no `data`, and one whose
\* data has no `params`
Rev(h, live, yaml, k) ==
    CASE live = "nodata" -> [rev |-> h]
      [] live = "noparams" -> [rev |-> h, data |-> [metrics |-> EmptyDict]]
      [] OTHER -> [rev |-> h, data |-> [params |-> Files(live, yaml, k)]]

\* the workspace/baseline entry: no `experiments` key
Baseline == [rev |-> <<"w">>]

\* the show document of a repository with these experiments: one revision
\* per experiment, its full hash extending the listed short hash
DocFor(exps) ==
    << Baseline,
       [rev |-> <<"m">>,
        experiments |-> [i \in 1..Len(exps) |->
            [name |-> exps[i][2],
             revs |-> <<Rev(exps[i][1] \o <<"c">>, "data", "absent", i)>>]]] >>

----------------------------------------------------------------------------
(* Service requests *)

Quiet == /\ line = <<>> /\ experiments = <<>> /\ nlines = 0
         /\ calls = <<>> /\ response = Idle /\ resolved = 0
         /\ pc = "ready"

\* identifiers against listings
InitResolve ==
    /\ Quiet
    /\ op \in {"params", "apply"}
    /\ experiment_id \in Ids
    /\ \E exps \in Listings :
          tool = [list |-> ListOk(exps),
                  show |-> <<ShowOk(IF op = "params" THEN DocFor(exps) ELSE <<Baseline>>)>>,
                  apply |-> ApplyOk]

OneExp == << <<<<"a", "b">>, <<"x">>>> >>

ListAnswers == {ListOk(OneExp)} \cup {ListFail(e) : e \in Stderrs}
ShowAnswers ==
    {ShowOk(DocFor(OneExp)), ShowFail("invalid_json", <<>>), ShowFail("not_iterable", <<>>)}
    \cup {ShowFail("exit", e) : e \in Stderrs}
ApplyAnswers ==
    {[kind |-> "ok", stdout |-> o, stderr |-> <<>>] : o \in {<<>>, <<"o", "k", " ">>}}
    \cup {[kind |-> "exit", stdout |-> <<>>, stderr |-> e] : e \in Stderrs}
    \cup {[kind |-> "oserror", stdout |-> <<>>, stderr |-> <<>>]}

\* failing subcommands
InitFailures ==
    /\ Quiet
    /\ op \in {"list", "params", "apply"}
    /\ experiment_id \in {<<"x">>, <<"b">>}
    /\ tool \in [list : ListAnswers, show : {<<a>> : a \in ShowAnswers}, apply : ApplyAnswers]

\* parameter mappings: any subset of the sections and of one other key, each
\* section an object or null
SectionValues == {Obj([test_size |-> "v"]), Obj(EmptyDict), Null}
ParamMappings ==
    UNION {[K -> SectionValues] : K \in SUBSET (Sections \cup {"other"})}

\* the show document whose single revision records mapping m
DocWith(h, m) ==
    << Baseline,
       [experiments |-> << [revs |-> << [rev |-> h,
            data |-> [params |-> (DvcLive :> [data |-> m])]] >>] >>] >>

\* parameter mappings of a resolved experiment
InitProjection ==
    /\ Quiet
    /\ op = "params"
    /\ experiment_id \in {<<"x">>, <<"a">>}
    /\ \E m \in ParamMappings :
          tool = [list |-> ListOk(OneExp),
                  show |-> <<ShowOk(DocWith(<<"a", "b", "c">>, m))>>,
                  apply |-> ApplyOk]

\* the three endpoints against failing subcommands and parameter mappings
Init == InitFailures \/ InitProjection

Finish(r) ==
    /\ response' = r.response
    /\ calls' = r.calls
    /\ resolved' = r.resolved
    /\ pc' = "done"
    /\ UNCHANGED <<op, experiment_id, tool, line, experiments, nlines>>

ListRequest ==
    /\ pc = "ready" /\ op = "list"
    /\ Finish(list_experiments(tool))

ParamsRequest ==
    /\ pc = "ready" /\ op = "params"
    /\ Finish(get_experiment_parameters(experiment_id, tool))

ApplyRequest ==
    /\ pc = "ready" /\ op = "apply"
    /\ Finish(apply_experiment_endpoint(experiment_id, tool))

Next == ListRequest \/ ParamsRequest \/ ApplyRequest

Spec == Init /\ [][Next]_vars

\* the lookup loop of the two endpoints that take an identifier
NextResolve == ParamsRequest \/ ApplyRequest

SpecResolve == InitResolve /\ [][NextResolve]_vars

----------------------------------------------------------------------------
(* Calls of the parameter extractor *)

FullKinds ==
    (LiveKinds \X YamlKinds) \cup {<<"nodata", "absent">>, <<"noparams", "absent">>}
PairKinds ==
    {<<"absent", "absent">>, <<"data", "absent">>, <<"absent", "data">>,
     <<"data_error", "data">>}

\* show documents with one revision
OneRevDocs ==
    {<<Baseline, [experiments |-> <<[revs |-> <<Rev(h, kd[1], kd[2], 1)>>]>>]>> :
        h \in Hashes, kd \in FullKinds}
    \cup {<<[experiments |-> <<[revs |-> <<[data |-> [params |-> Files("data", "data", 1)]]>>]>>]>>}

\* two revisions in one experiment, in two experiments, in two branch entries
Shape(n, r1, r2) ==
    CASE n = 1 -> <<Baseline, [experiments |-> <<[name |-> <<"x">>], [revs |-> <<r1, r2>>]>>]>>
      [] n = 2 -> <<[experiments |-> <<[revs |-> <<r1>>], [revs |-> <<>>], [revs |-> <<r2>>]>>]>>
      [] OTHER -> <<[experiments |-> <<[revs |-> <<r1>>]>>],
                    [experiments |-> <<>>],
                    [experiments |-> <<[revs |-> <<r2>>]>>]>>

TwoRevDocs ==
    {Shape(n, Rev(h1, k1[1], k1[2], 1), Rev(h2, k2[1], k2[2], 2)) :
        n \in 1..3, h1 \in Hashes, h2 \in Hashes, k1 \in PairKinds, k2 \in PairKinds}

ExtractShows ==
    {ShowOk(d) : d \in OneRevDocs \cup TwoRevDocs}
    \cup {ShowFail("exit", <<"e">>), ShowFail("invalid_json", <<>>)}

\* experiment_id holds the commit hash the extractor is called with
InitExtract ==
    /\ Quiet
    /\ op \in {"extract", "cli_extract"}
    /\ experiment_id \in Hashes
    /\ \E a \in ExtractShows :
          tool = [list |-> ListOk(<<>>), show |-> <<a>>, apply |-> ApplyOk]

\* get_experiment_params of src/api.py
ExtractCall ==
    /\ pc = "ready" /\ op = "extract"
    /\ LET r == get_experiment_params(tool.show[1], experiment_id)
       IN  response' = [kind |-> "extract", raised |-> r.raised,
                        value |-> IF r.raised THEN None ELSE r.value]
    /\ calls' = <<ShowArgv>>
    /\ pc' = "done"
    /\ UNCHANGED <<op, experiment_id, tool, resolved, line, experiments, nlines>>

\* get_experiment_params of src/list_dvc_experiments.py
CliExtractCall ==
    /\ pc = "ready" /\ op = "cli_extract"
    /\ response' = [kind |-> "extract", raised |-> FALSE,
                    value |-> cli_get_experiment_params(tool.show[1], experiment_id)]
    /\ calls' = <<ShowArgv>>
    /\ pc' = "done"
    /\ UNCHANGED <<op, experiment_id, tool, resolved, line, experiments, nlines>>

NextExtract == ExtractCall \/ CliExtractCall

SpecExtract == InitExtract /\ [][NextExtract]_vars

\* identifiers against listings, and commit hashes against show documents
NextPrefix == ParamsRequest \/ ApplyRequest \/ ExtractCall \/ CliExtractCall

SpecPrefix == (InitResolve \/ InitExtract) /\ [][NextPrefix]_vars

----------------------------------------------------------------------------
(* Runs of the report *)

ReportPairs == { <<<<"a">>, <<"x">>>>, <<<<"a", "b">>, <<"a">>>> }
ReportListings == SeqsOf(ReportPairs, 0, MaxExps)

NullSection ==
    ("data_ingestion" :> Obj([test_size |-> "v"])) @@ ("model_building" :> Null)

\* the show document with one revision per experiment, each recording m
DocAll(exps, m) ==
    << Baseline,
       [experiments |-> [i \in 1..Len(exps) |->
            [revs |-> << [rev |-> exps[i][1] \o <<"c">>,
                          data |-> [params |-> (ParamsYaml :> [data |-> m])]] >>]]] >>

LookupKinds == {"exit", "invalid_json", "good", "null_section", "empty", "none"}

ReportShow(kind, exps) ==
    CASE kind = "exit" -> ShowFail("exit", <<"e">>)
      [] kind = "invalid_json" -> ShowFail("invalid_json", <<>>)
      [] kind = "good" -> ShowOk(DocFor(exps))
      [] kind = "null_section" -> ShowOk(DocAll(exps, NullSection))
      [] kind = "empty" -> ShowOk(DocAll(exps, EmptyDict))
      [] OTHER -> ShowOk(<<Baseline>>)

InitReport ==
    /\ Quiet
    /\ op = "report"
    /\ experiment_id = <<>>
    /\ \/ \E exps \in ReportListings : \E kinds \in [1..Len(exps) -> LookupKinds] :
             tool = [list |-> ListOk(exps),
                     show |-> [k \in 1..Len(exps) |-> ReportShow(kinds[k], exps)],
                     apply |-> ApplyOk]
       \/ \E l \in {ListNoise} \cup {ListFail(e) : e \in Stderrs} :
             tool = [list |-> l, show |-> <<>>, apply |-> ApplyOk]

ReportRun ==
    /\ pc = "ready" /\ op = "report"
    /\ LET r == list_dvc_experiments_with_params(tool)
       IN  /\ response' = [exit_code |-> r.exit_code, out |-> r.out, err |-> r.err]
           /\ calls' = r.calls
    /\ pc' = "done"
    /\ UNCHANGED <<op, experiment_id, tool, resolved, line, experiments, nlines>>

NextReport == ReportRun

SpecReport == InitReport /\ [][NextReport]_vars

----------------------------------------------------------------------------
(* Properties of the service *)

\* the experiments of the listing the request saw
Listed == get_experiments_list(tool.list.stdout)

Least(S) == IF S = {} THEN 0 ELSE CHOOSE i \in S : \A j \in S : i <= j

IsPrefix(p, s) == Len(p) <= Len(s) /\ \A i \in 1..Len(p) : p[i] = s[i]

ByName(exps, id) == {i \in 1..Len(exps) : exps[i][2] = id}
ByHash(exps, id) == {i \in 1..Len(exps) : exps[i][1] = id}
ByPrefix(exps, id) == {i \in 1..Len(exps) : IsPrefix(id, exps[i][1])}
ByAnyRule(exps, id) == ByName(exps, id) \cup ByHash(exps, id) \cup ByPrefix(exps, id)

Resolving == pc = "done" /\ op \in {"params", "apply"} /\ tool.list.rc = 0

\* C1: the three rules are applied in priority order: the first experiment
\* whose name equals the identifier; failing that the first whose hash equals
\* it; failing that the first whose hash starts with it; else not found.
C1_RulesInPriorityOrder ==
    Resolving =>
        LET exps == Listed
        IN  resolved =
              IF ByName(exps, experiment_id) # {} THEN Least(ByName(exps, experiment_id))
              ELSE IF ByHash(exps, experiment_id) # {} THEN Least(ByHash(exps, experiment_id))
              ELSE Least(ByPrefix(exps, experiment_id))

\* C2: whenever the identifier resolves, apply is invoked with the name of the
\* matched experiment as its sole argument (so with the raw identifier only
\* when that is the matched experiment's name), and a success response
\* carries that name.
C2_ApplyGetsResolvedName ==
    (Resolving /\ op = "apply") =>
        LET exps == Listed
            matching == ByAnyRule(exps, experiment_id)
        IN  matching # {} =>
              /\ resolved \in matching
              /\ calls = <<ListArgv, <<"dvc", "exp", "apply", exps[resolved][2]>>>>
              /\ (experiment_id # exps[resolved][2] => calls[2][4] # experiment_id)
              /\ (response.status = 200 =>
                      response.body.experiment_name = exps[resolved][2])

\* a request whose identifier is a proper prefix of the matched experiment's
\* hash and not its name was applied by name
C2_Witness ==
    /\ Resolving /\ op = "apply" /\ response.status = 200
    /\ resolved # 0
    /\ experiment_id # Listed[resolved][2]
    /\ experiment_id # Listed[resolved][1]
    /\ calls[2][4] = Listed[resolved][2]

\* C3: an identifier that equals no listed name, equals no listed hash and is
\* a prefix of no listed hash ends in 404, the listing being the request's
\* only subprocess call.
C3_UnmatchedIsNotFound ==
    Resolving =>
        LET exps == Listed
        IN  ByAnyRule(exps, experiment_id) = {} =>
              /\ response.status = 404
              /\ calls = <<ListArgv>>

\* an apply request for an identifier that occurs inside a listed hash
\* without being a prefix of it
C3_Witness ==
    /\ Resolving /\ op = "apply" /\ response.status = 404
    /\ ByAnyRule(Listed, experiment_id) = {}
    /\ \E i \in 1..Len(Listed) : Contains(Listed[i][1], experiment_id)

\* the mapping the extractor returns for the resolved experiment
Extracted == get_experiment_params(tool.show[1], Listed[resolved][1])

ProjectionCase ==
    /\ Resolving /\ op = "params" /\ resolved # 0
    /\ tool.show[1].kind = "ok"
    /\ Extracted.value.some
    /\ \A s \in Sections \cap DOMAIN Extracted.value.val : Extracted.value.val[s].t = "object"

MissingSectionsEmpty ==
    /\ response.status = 200
    /\ \A s \in Sections \ DOMAIN Extracted.value.val : DOMAIN response.body[s] = {}
    /\ \A s \in Sections \cap DOMAIN Extracted.value.val :
            response.body[s] = Extracted.value.val[s].v

C8_ToolFailuresSurface ==
    pc = "done" =>
        /\ tool.list.rc # 0 =>
              /\ response.status = 500
              /\ tool.list.stderr # <<>> => response.detail.text = tool.list.stderr
        /\ (op = "params" /\ tool.list.rc = 0 /\ ByAnyRule(Listed, experiment_id) # {}) =>
              /\ tool.show[1].kind \in {"exit", "invalid_json", "not_iterable"} =>
                    response.status = 500
              /\ (tool.show[1].kind = "exit" /\ tool.show[1].stderr # <<>>) =>
                    response.detail.text = tool.show[1].stderr
        /\ (op = "apply" /\ tool.list.rc = 0 /\ ByAnyRule(Listed, experiment_id) # {}) =>
              /\ tool.apply.kind = "exit" =>
                    /\ response.status = 400
                    /\ tool.apply.stderr # <<>> =>
                          /\ response.detail.text # <<>> => Contains(tool.apply.stderr, response.detail.text)
                          /\ \A i \in 1..Len(tool.apply.stderr) :
                                tool.apply.stderr[i] \notin SpaceChars =>
                                    Contains(response.detail.text, <<tool.apply.stderr[i]>>)
              /\ tool.apply.kind = "oserror" => response.status = 500

\* apply exited non-zero with text on stderr and the request ended in 400
C8_Witness ==
    /\ pc = "done" /\ op = "apply"
    /\ tool.apply.kind = "exit" /\ tool.apply.stderr = <<" ", "e", " ">>
    /\ response.status = 400 /\ response.detail.text = <<"e">>

----------------------------------------------------------------------------
(* Properties of the parameter extractor *)

Extracting == pc = "done" /\ op \in {"extract", "cli_extract"} /\ tool.show[1].kind = "ok"

ShowData == tool.show[1].data

\* the places <<branch entry, experiment, revision>> of the show document
Places ==
    {p \in (1..Len(ShowData)) \X (1..3) \X (1..2) :
        /\ "experiments" \in DOMAIN ShowData[p[1]]
        /\ p[2] <= Len(ShowData[p[1]].experiments)
        /\ "revs" \in DOMAIN ShowData[p[1]].experiments[p[2]]
        /\ p[3] <= Len(ShowData[p[1]].experiments[p[2]].revs)}

RevAt(p) == ShowData[p[1]].experiments[p[2]].revs[p[3]]

\* traversal order: branch entries, then experiments, then revisions
Precedes(p, q) ==
    \/ p[1] < q[1]
    \/ p[1] = q[1] /\ p[2] < q[2]
    \/ p[1] = q[1] /\ p[2] = q[2] /\ p[3] < q[3]

First(S) == CHOOSE p \in S : \A q \in S : q = p \/ Precedes(p, q)

HashAt(p) == IF "rev" \in DOMAIN RevAt(p) THEN RevAt(p).rev ELSE <<>>

\* the target occurs in the revision's hash
Occurs(target, h) ==
    \E d \in 0..Len(h) :
        d + Len(target) <= Len(h) /\ \A i \in 1..Len(target) : h[d + i] = target[i]

FilesAt(p) ==
    IF "data" \in DOMAIN RevAt(p) /\ "params" \in DOMAIN RevAt(p).data
    THEN RevAt(p).data.params ELSE EmptyDict

LiveUsable(p) ==
    /\ DvcLive \in DOMAIN FilesAt(p)
    /\ "data" \in DOMAIN FilesAt(p)[DvcLive]
    /\ "error" \notin DOMAIN FilesAt(p)[DvcLive]

YamlUsable(p) ==
    /\ ParamsYaml \in DOMAIN FilesAt(p)
    /\ "data" \in DOMAIN FilesAt(p)[ParamsYaml]

Usable(p) == LiveUsable(p) \/ YamlUsable(p)

\* what the revision at p yields by the extraction priority
Yield(p) ==
    IF LiveUsable(p) THEN Some(FilesAt(p)[DvcLive].data)
    ELSE IF YamlUsable(p) THEN Some(FilesAt(p)[ParamsYaml].data)
    ELSE None

Matching == {p \in Places : Occurs(experiment_id, HashAt(p))}
UsableMatching == {p \in Matching : Usable(p)}

\* C5: for the matching revision: the dvclive/params.yaml data when that entry
\* has `data` and no `error`, whatever params.yaml holds; else the
\* params.yaml data when present; else nothing.
C5_ExtractionPriority ==
    (Extracting /\ Cardinality(Matching) = 1) =>
        /\ ~response.raised
        /\ response.value = Yield(First(Matching))

\* the one matching revision has dvclive data with an error and params.yaml
\* data: the params.yaml data is returned
C5_Witness ==
    /\ Extracting /\ Cardinality(Matching) = 1
    /\ LET p == First(Matching)
       IN  /\ DvcLive \in DOMAIN FilesAt(p)
           /\ {"data", "error"} \subseteq DOMAIN FilesAt(p)[DvcLive]
           /\ YamlUsable(p)
           /\ response.value = Some(FilesAt(p)[ParamsYaml].data)

\* C10 as stated: the first matching revision in traversal order decides:
\* its parameters when it has usable data, "no parameters" when it has none.
C10_FirstMatchDecides ==
    Extracting =>
        response.value = IF Matching = {} THEN None ELSE Yield(First(Matching))

\* C10 as amended: the first matching revision that has usable parameter data
\* decides; "no parameters" is the outcome only when no matching revision has
\* usable data; revisions after the deciding one do not count.
C10_FirstUsableMatchDecides ==
    Extracting =>
        /\ ~response.raised
        /\ response.value =
              IF UsableMatching = {} THEN None ELSE Yield(First(UsableMatching))

\* two matching revisions, both with usable data, that differ: the earlier one
\* is returned
C10_Witness ==
    /\ Extracting /\ Cardinality(UsableMatching) = 2
    /\ \E p \in UsableMatching, q \in UsableMatching :
          /\ Precedes(p, q)
          /\ Yield(p) # Yield(q)
          /\ response.value = Yield(p)

\* C4 as stated: every non-empty prefix P of a listed hash H resolves to the
\* experiment whose hash is H, and the extractor queried with a prefix P of a
\* revision's hash H returns the parameters of that revision.
C4_PrefixSelectsItsHash ==
    /\ Resolving =>
          LET exps == Listed
          IN  \A i \in 1..Len(exps) :
                (experiment_id # <<>> /\ IsPrefix(experiment_id, exps[i][1])) =>
                    /\ resolved # 0
                    /\ exps[resolved][1] = exps[i][1]
    /\ Extracting =>
          \A p \in Places :
              (experiment_id # <<>> /\ IsPrefix(experiment_id, HashAt(p))) =>
                  response.value = Yield(p)

\* C4 as amended: a non-empty prefix P of a listed hash H always resolves, to
\* the first experiment in lister order whose name equals P or whose hash
\* starts with P, which is the experiment with hash H when none before it
\* matches; the extractor queried with a prefix P of a revision's hash H
\* returns the parameters of the first revision in traversal order that
\* matches P and has usable data, which is revision H when it has usable data
\* and no such revision precedes it.
C4_PrefixMatchesFirstWins ==
    /\ Resolving =>
          LET exps == Listed
              matching == ByAnyRule(exps, experiment_id)
          IN  \A i \in 1..Len(exps) :
                (experiment_id # <<>> /\ IsPrefix(experiment_id, exps[i][1])) =>
                    /\ resolved \in 1..i
                    /\ resolved = Least(matching)
                    /\ (\A j \in 1..(i - 1) : j \notin matching) => resolved = i
    /\ Extracting =>
          LET candidates == UsableMatching
          IN  \A p \in Places :
                (experiment_id # <<>> /\ IsPrefix(experiment_id, HashAt(p)) /\ Usable(p)) =>
                    /\ response.value.some
                    /\ response.value = Yield(First(candidates))
                    /\ (\A q \in candidates : ~Precedes(q, p)) => response.value = Yield(p)

\* a proper prefix of the second listed hash, matching nothing before it,
\* resolved to the second experiment
C4_Witness ==
    /\ Resolving /\ Len(Listed) = 2 /\ resolved = 2
    /\ IsPrefix(experiment_id, Listed[2][1])
    /\ experiment_id # Listed[2][1]
    /\ experiment_id # Listed[2][2]

----------------------------------------------------------------------------
(* Properties of the report *)

\* the experiments the report's listing yields
ReportListed == IF tool.list.rc # 0 THEN <<>> ELSE Listed

Banners == SelectSeq(response.out, LAMBDA x : x.kind = "banner")

BannersOf(exps, n) == [i \in 1..n |-> Banner(exps[i])]

\* the lookups that return a mapping one of whose sections is not a mapping
BadLookups ==
    {k \in 1..Len(ReportListed) :
        LET found == cli_get_experiment_params(tool.show[k], ReportListed[k][1])
        IN  /\ Truthy(found)
            /\ \E s \in Sections \cap DOMAIN found.val : found.val[s].t # "object"}

----------------------------------------------------------------------------
(* Properties of the lister *)

\* ln is <hash> [<name>] with a hash of k word characters
FormLine(ln, k) ==
    /\ k >= 1 /\ Len(ln) >= k + 4
    /\ \A i \in 1..k : ln[i] \in WordChars
    /\ ln[k + 1] = " " /\ ln[k + 2] = "["
    /\ ln[Len(ln)] = "]"

Blank(ln) == \A i \in 1..Len(ln) : ln[i] \in SpaceChars

LacksBrackets(ln) ==
    \/ \A i \in 1..Len(ln) : ln[i] # "["
    \/ \A i \in 1..Len(ln) : ln[i] # "]"

\* C6: each output line of the form <hash> [<name>] appends exactly that
\* (hash, name) pair after the pairs of the earlier lines, a repeated line
\* included; a blank line, the line main: and a line lacking brackets append
\* nothing; no line removes or reorders what earlier lines gave.
C6_ListerContract ==
    [][ (pc = "body" /\ pc' = "ready") =>
          /\ \A k \in 1..Len(line) :
                FormLine(line, k) =>
                    experiments' = Append(experiments,
                        <<SubSeq(line, 1, k), SubSeq(line, k + 3, Len(line) - 1)>>)
          /\ (Blank(line) \/ line = MainHeader \/ LacksBrackets(line)) =>
                experiments' = experiments
          /\ \/ experiments' = experiments
             \/ /\ Len(experiments') = Len(experiments) + 1
                /\ SubSeq(experiments', 1, Len(experiments)) = experiments
      ]_vars

\* a skipped line and the line `ab [xy]` were read
C6_Witness ==
    /\ op = "lister" /\ pc = "ready" /\ nlines = 2
    /\ experiments = << <<<<"a", "b">>, <<"x", "y">>>> >>

====
